---- MODULE Spec2Model ----
(***************************************************************************)
(* The notification reporter of the Playwright suite: the TypeScript       *)
(* SlackReporter (reporters/teams-utils.ts, lines 335-556) together with   *)
(* the delivery primitives SlackUtils.sendToSlack and                      *)
(* TeamsUtils.sendToTeams.  The host (Playwright) drives the reporter      *)
(* through onBegin, onTestEnd* and onEnd; onEnd builds the summary and     *)
(* then serves the Slack and the Teams channel.                            *)
(***************************************************************************)
EXTENDS Integers, Sequences, FiniteSets, TLC

\* Number of onTestEnd events the host issues in one run.
MaxTests == 2

\* Number of onEnd calls a host that does not keep to the lifecycle issues.
MaxEnds == 2

\* The summaries handed to the message formatters: the largest counters and
\* the longest failure list.
MaxPassed == 2
MaxFailed == 8
MaxSkipped == 1
MaxListed == 6
MaxEntries == 2
MaxHours == 1
MaxLegacyTests == 3

\* SlackUtils.sendToSlack / TeamsUtils.sendToTeams: const maxRetries = 3
maxRetries == 3

\* calculateTestSummary: this.options.maxFailuresToShow || 5
DefaultMaxFailures == 5

\* failures.slice(0, 5) and `failures.length > 5` in both formatters
TopFailures == 5

Channels == {"slack", "teams"}

\* The test cases of the run: parent (suite) title, title, file.  The first
\* two are different tests in different files whose titles concatenate to the
\* same key; the third is a test of its own.
\* A file is the sequence of the segments of its path.
TestCases ==
  { [parent |-> "cart", title |-> "add_item",
     file |-> <<"tests", "cart.spec.ts">>],
    [parent |-> "cart_add", title |-> "item",
     file |-> <<"e2e", "cart.spec.ts">>],
    [parent |-> "login", title |-> "valid",
     file |-> <<"tests", "login.spec.ts">>] }

\* An optional field that is not provided.
Undefined == "undefined"

\* result.error?.message when there is none: undefined or the empty string,
\* which `||` treats alike.  A message is the sequence of its characters.
NoError == <<>>

\* The results the host reports: status, retry index, error message,
\* duration, attachments.
TestResults ==
  { [status |-> "passed", retry |-> 0, error |-> NoError,
     duration |-> 1200, attachments |-> <<>>],
    [status |-> "passed", retry |-> 1, error |-> NoError,
     duration |-> 1200, attachments |-> <<>>],
    [status |-> "failed", retry |-> 0, error |-> <<"n", "o", "\n", "2", "x", "x">>,
     duration |-> 1200, attachments |-> <<>>],
    [status |-> "timedOut", retry |-> 0, error |-> NoError,
     duration |-> 1200, attachments |-> <<>>],
    [status |-> "skipped", retry |-> 0, error |-> NoError,
     duration |-> 1200, attachments |-> <<>>],
    [status |-> "interrupted", retry |-> 0, error |-> NoError,
     duration |-> 1200, attachments |-> <<>>] }

\* Values of the maxFailuresToShow option (0 is falsy and falls back to 5).
MaxFailuresChoices == {0, 1}

\* Values of the maxFailuresToShow option around the formatters' own limit.
MaxFailuresAround == {TopFailures, TopFailures + 1, TopFailures + 2}

\* Values of the optional options projectName, environment and ciUrl, and of
\* the same fields of a summary.
ProjectNames == {Undefined, "Shop"}
Environments == {Undefined, "staging"}
CiUrls == {Undefined, "https://ci.example/run/1"}

\* SlackReporterOptions
ReporterOptions ==
  [onlyOnFailure : BOOLEAN,
   slackWebhookUrl : BOOLEAN,
   teamsWebhookUrl : BOOLEAN,
   maxFailuresToShow : MaxFailuresChoices \cup MaxFailuresAround,
   includeScreenshots : BOOLEAN,
   projectName : ProjectNames,
   environment : Environments,
   ciUrl : CiUrls]

\* process.env: the variables calculateTestSummary reads, and those the
\* legacy reporter reads.  A variable that is not set reads as undefined.
ProcessEnvs ==
  [CI_URL : {Undefined, "https://ci.example/env"},
   GITHUB_SERVER_URL : {Undefined, "https://github.com"},
   GITHUB_REPOSITORY : {Undefined, "shop/e2e"},
   GITHUB_RUN_ID : {Undefined, "42"},
   SLACK_WEBHOOK_URL : {Undefined, "https://hooks.slack.com/services/T/B/x"},
   ONLY_ON_FAILURE : {Undefined, "true", "false"}]

\* No variable is set.
NoEnv ==
  [CI_URL |-> Undefined, GITHUB_SERVER_URL |-> Undefined,
   GITHUB_REPOSITORY |-> Undefined, GITHUB_RUN_ID |-> Undefined,
   SLACK_WEBHOOK_URL |-> Undefined, ONLY_ON_FAILURE |-> Undefined]

\* this.results of the legacy reporter after its constructor.
NewResults ==
  [passed |-> 0, failed |-> 0, skipped |-> 0, total |-> 0, duration |-> 0,
   failures |-> <<>>]

\* What the webhook does with one POST: a 2xx response, a non-2xx response,
\* or a transport error (fetch rejects).
Responses == {"ok", "non2xx", "transport"}

NoSummary == [built |-> FALSE]

\* What `new Date()` reads, in milliseconds: in the constructor, in onBegin
\* and in onEnd.  The wall clock may be set back between onBegin and onEnd.
ConstructionDate == 0
BeginDates == {2000}
EndDates == {1000, 67000}

\* No formatter has been applied.
NoFmt == [applied |-> "none"]

\* A delivery call that has just been entered: `let lastError = null`,
\* `attempt = 1`; sent, oks, lastResp and waits are the history of the call.
NewCall(c, kind) ==
  [status |-> "running", channel |-> c, kind |-> kind, attempt |-> 1,
   lastError |-> "null", error |-> "none",
   sent |-> 0, oks |-> 0, lastResp |-> "none", waits |-> <<>>]

NoCall == [NewCall("none", "none") EXCEPT !.status = "none"]

VARIABLES
  options,      \* SlackReporter.options
  testResults,  \* SlackReporter.testResults : Map<testId, TestResult>
  failures,     \* SlackReporter.failures : TestFailure[]
  pc,           \* where the reporter is in its lifecycle
  summary,      \* the TestSummary built by onEnd
  call,         \* the frame of the delivery call in progress (or the last one)
  chan,         \* per channel: what onEnd has done on it so far
  clock,        \* milliseconds of backoff elapsed since onEnd started
  onEndResult,  \* the promise returned by onEnd: pending, resolved, rejected
  recorded,     \* history: per-class counts of the outcomes passed to onTestEnd
  startTime,    \* SlackReporter.startTime, as milliseconds
  ends,         \* history: how many times onEnd has been invoked
  fmt,          \* the value handed to a formatter and what the formatter built
  env,          \* process.env, the variables the reporters read
  results       \* this.results of the legacy JavaScript reporter

vars == <<options, testResults, failures, pc, summary, call, chan, clock,
          onEndResult, recorded, startTime, ends, fmt, env, results>>

Min(a, b) == IF a < b THEN a ELSE b

\* An optional field taken as provided without looking at it.
Truthy_always(x) == TRUE

\* An optional field taken as missing without looking at it.
Truthy_never(x) == FALSE

\* JavaScript truthiness of an optional string.
Truthy(x) == x # Undefined /\ x # ""

RECURSIVE SumSeq(_)
SumSeq(s) == IF s = <<>> THEN 0 ELSE Head(s) + SumSeq(Tail(s))

----------------------------------------------------------------------------
\* SlackReporter.onTestEnd: const testId = `${test.parent.title}_${test.title}`
TestId(test) == test.parent \o "_" \o test.title

\* result.error?.message || 'Unknown error'
ErrorText(result) ==
  IF result.error = NoError
    THEN <<"U", "n", "k", "n", "o", "w", "n", " ", "e", "r", "r", "o", "r">>
    ELSE result.error

IsFailure(result) == result.status \in {"failed", "timedOut"}

\* attachment.path?.includes('screenshot'), over the paths of the run
PathIncludesScreenshot(path) ==
  path \in {"test-results/screenshot-1.png", "test-results/screenshot-2.png"}

\* The attachment filter of extractScreenshotPath.
IsScreenshot(attachment) ==
  \/ attachment.name = "screenshot"
  \/ PathIncludesScreenshot(attachment.path)

\* result.attachments?.filter(...)
RECURSIVE FilterScreenshots(_)
FilterScreenshots(attachments) ==
  IF attachments = <<>> THEN <<>>
  ELSE IF IsScreenshot(Head(attachments))
    THEN <<Head(attachments)>> \o FilterScreenshots(Tail(attachments))
    ELSE FilterScreenshots(Tail(attachments))

\* SlackReporter.extractScreenshotPath
extractScreenshotPath(result) ==
  LET screenshots == FilterScreenshots(result.attachments) IN
  IF Len(screenshots) > 0 THEN screenshots[1].path ELSE Undefined

\* The TestFailure record pushed by onTestEnd.
TestFailure(test, result) ==
  [title |-> test.title,
   file |-> test.file,
   error |-> ErrorText(result),
   duration |-> result.duration,
   screenshotPath |-> extractScreenshotPath(result)]

\* Map.prototype.set
MapSet(m, k, v) == [x \in DOMAIN m \cup {k} |-> IF x = k THEN v ELSE m[x]]

EmptyMap == [x \in {} |-> 0]

----------------------------------------------------------------------------
\* State after `new SlackReporter(options)`: the options are whatever the
\* configuration passes; nothing is recorded yet.
ReporterInit ==
  /\ options \in ReporterOptions
  /\ env \in ProcessEnvs
  /\ testResults = EmptyMap
  /\ failures = <<>>
  /\ pc = "idle"
  /\ summary = NoSummary
  /\ call = NoCall
  /\ chan = [c \in Channels |->
              [status |-> "pending", fullCalls |-> 0, simpleCalls |-> 0,
               fullResult |-> "none", simpleResult |-> "none",
               posts |-> 0, simplePosts |-> 0, oks |-> 0, lastResp |-> "none",
               waited |-> 0, firstPostAt |-> -1, finishedAt |-> -1]]
  /\ clock = 0
  /\ onEndResult = "none"
  /\ recorded = [n |-> 0, passed |-> 0, flaky |-> 0, failed |-> 0, skipped |-> 0]
  /\ startTime = ConstructionDate
  /\ ends = 0
  /\ results = NewResults

\* A run with the optional options left out (includeScreenshots at its
\* default) and no environment variable set.
PlainRun ==
  /\ options.maxFailuresToShow \in MaxFailuresChoices
  /\ options.includeScreenshots
  /\ options.projectName = Undefined
  /\ options.environment = Undefined
  /\ options.ciUrl = Undefined
  /\ env = NoEnv

Init ==
  /\ ReporterInit
  /\ PlainRun
  /\ fmt = NoFmt

\* SlackReporter.onBegin: this.startTime = new Date()
onBegin ==
  /\ pc = "idle"
  /\ pc' = "collecting"
  /\ \E now \in BeginDates : startTime' = now
  /\ UNCHANGED <<options, testResults, failures, summary, call, chan, clock,
                 onEndResult, recorded, ends, fmt, env, results>>

\* History of the outcomes handed to onTestEnd, by class.
Record(result) ==
  [n |-> recorded.n + 1,
   passed |-> recorded.passed + (IF result.status = "passed" THEN 1 ELSE 0),
   flaky |-> recorded.flaky
               + (IF result.status = "passed" /\ result.retry > 0 THEN 1 ELSE 0),
   failed |-> recorded.failed + (IF IsFailure(result) THEN 1 ELSE 0),
   skipped |-> recorded.skipped
               + (IF result.status \in {"skipped", "interrupted"} THEN 1 ELSE 0)]

\* The body of SlackReporter.onTestEnd(test, result).
onTestEnd_body(test, result) ==
  /\ testResults' = MapSet(testResults, TestId(test), result)
  /\ failures' = IF IsFailure(result)
                   THEN Append(failures, TestFailure(test, result))
                   ELSE failures
  /\ recorded' = Record(result)
  /\ UNCHANGED <<options, pc, summary, call, chan, clock, onEndResult,
                 startTime, ends, fmt, env, results>>

\* SlackReporter.onTestEnd(test, result), called by the host between onBegin
\* and onEnd.
onTestEnd(test, result) ==
  /\ pc = "collecting"
  /\ recorded.n < MaxTests
  /\ onTestEnd_body(test, result)

\* The counting loop of calculateTestSummary: how many stored results have a
\* status in the given set.
CountStatus(tests, statuses) ==
  Cardinality({id \in DOMAIN tests : tests[id].status \in statuses})

\* The switch without its `case 'interrupted'`.
SkippedStatuses_noInterrupted == {"skipped"}

\* `case 'skipped'` and `case 'interrupted'` of the switch
SkippedStatuses == {"skipped", "interrupted"}

\* `case 'failed': case 'timedOut'` of the switch
FailedStatuses == {"failed", "timedOut"}

\* this.options.maxFailuresToShow || 5
FailuresLimit(opts) ==
  IF opts.maxFailuresToShow = 0 THEN DefaultMaxFailures
  ELSE opts.maxFailuresToShow

\* Array.prototype.slice(0, n)
Slice0(s, n) == SubSeq(s, 1, Min(Len(s), n))

\* The ciUrl of calculateTestSummary: `a || b || c ? template : undefined`,
\* where `||` binds tighter than `?:`; the template renders a variable that
\* is not set as the text 'undefined'.
calculateTestSummary_ciUrl(opts, e) ==
  IF Truthy(opts.ciUrl) \/ Truthy(e.CI_URL) \/ Truthy(e.GITHUB_SERVER_URL)
    THEN e.GITHUB_SERVER_URL \o "/" \o e.GITHUB_REPOSITORY
           \o "/actions/runs/" \o e.GITHUB_RUN_ID
    ELSE Undefined

\* SlackReporter.calculateTestSummary
calculateTestSummary(tests, fails, opts, e, start, duration, endTime) ==
  [built |-> TRUE,
   duration |-> duration,
   startTime |-> start,
   endTime |-> endTime,
   total |-> Cardinality(DOMAIN tests),
   passed |-> CountStatus(tests, {"passed"}),
   failed |-> CountStatus(tests, FailedStatuses),
   skipped |-> CountStatus(tests, SkippedStatuses),
   flaky |-> Cardinality({id \in DOMAIN tests :
                 tests[id].status = "passed" /\ tests[id].retry > 0}),
   failures |-> Slice0(fails, FailuresLimit(opts)),
   projectName |-> opts.projectName,
   ciUrl |-> calculateTestSummary_ciUrl(opts, e),
   environment |-> opts.environment]

\* const duration = endTime.getTime() - this.startTime.getTime()
Duration(endTime, start) == endTime - start

\* The body of SlackReporter.onEnd, up to the call of
\* this.sendToSlack(summary); endTime is what `new Date()` reads.
onEnd_body(endTime) ==
  /\ summary' = calculateTestSummary(testResults, failures, options, env,
                                      startTime, Duration(endTime, startTime),
                                      endTime)
  /\ pc' = "sendToSlack"
  /\ onEndResult' = "pending"
  /\ ends' = ends + 1
  /\ UNCHANGED <<options, testResults, failures, call, chan, clock, recorded,
                 startTime, fmt, env, results>>

\* SlackReporter.onEnd, called by the host after the last onTestEnd.
onEnd ==
  /\ pc = "collecting"
  /\ \E endTime \in EndDates : onEnd_body(endTime)

----------------------------------------------------------------------------
\* A backoff that starts at 2^0 seconds.
BackoffDelay_fromZero(attempt) == (2 ^ (attempt - 1)) * 1000

\* const delay = Math.pow(2, attempt) * 1000
BackoffDelay(attempt) == (2 ^ attempt) * 1000

\* The retry loop without the `return` after a successful POST.
SlackUtils_sendToSlack_noReturn(c, resp) ==
  LET posted == [c EXCEPT !.sent = @ + 1, !.lastResp = resp]
      caught == IF resp = "ok" THEN [posted EXCEPT !.oks = @ + 1]
                ELSE [posted EXCEPT !.lastError = resp]
      slept == IF resp # "ok" /\ c.attempt < maxRetries
                 THEN [caught EXCEPT
                         !.waits = Append(@, BackoffDelay(c.attempt))]
                 ELSE caught
      next == [slept EXCEPT !.attempt = @ + 1]
  IN IF next.attempt <= maxRetries
       THEN next
       ELSE [next EXCEPT !.status = "raised", !.error = next.lastError]

\* One iteration of the retry loop of SlackUtils.sendToSlack: the POST, its
\* response, the catch block with its backoff wait, and the loop's increment
\* and test; the throw after the loop when the loop is left.
SlackUtils_sendToSlack(c, resp) ==
  LET posted == [c EXCEPT !.sent = @ + 1, !.lastResp = resp] IN
  IF resp = "ok"
    THEN [posted EXCEPT !.oks = @ + 1, !.status = "returned"]
    ELSE LET caught == [posted EXCEPT !.lastError = resp]
             slept == IF c.attempt < maxRetries
                        THEN [caught EXCEPT
                                !.waits = Append(@, BackoffDelay(c.attempt))]
                        ELSE caught
             next == [slept EXCEPT !.attempt = @ + 1]
         IN IF next.attempt <= maxRetries
              THEN next
              ELSE [next EXCEPT !.status = "raised", !.error = next.lastError]

\* The retry loop keeping the first error: `lastError = lastError ?? error`.
TeamsUtils_sendToTeams_firstError(c, resp) ==
  LET posted == [c EXCEPT !.sent = @ + 1, !.lastResp = resp] IN
  IF resp = "ok"
    THEN [posted EXCEPT !.oks = @ + 1, !.status = "returned"]
    ELSE LET caught == [posted EXCEPT
                          !.lastError = IF @ = "null" THEN resp ELSE @]
             slept == IF c.attempt < maxRetries
                        THEN [caught EXCEPT
                                !.waits = Append(@, BackoffDelay(c.attempt))]
                        ELSE caught
             next == [slept EXCEPT !.attempt = @ + 1]
         IN IF next.attempt <= maxRetries
              THEN next
              ELSE [next EXCEPT !.status = "raised", !.error = next.lastError]

\* One iteration of the retry loop of TeamsUtils.sendToTeams.
TeamsUtils_sendToTeams(c, resp) ==
  LET posted == [c EXCEPT !.sent = @ + 1, !.lastResp = resp] IN
  IF resp = "ok"
    THEN [posted EXCEPT !.oks = @ + 1, !.status = "returned"]
    ELSE LET caught == [posted EXCEPT !.lastError = resp]
             slept == IF c.attempt < maxRetries
                        THEN [caught EXCEPT
                                !.waits = Append(@, BackoffDelay(c.attempt))]
                        ELSE caught
             next == [slept EXCEPT !.attempt = @ + 1]
         IN IF next.attempt <= maxRetries
              THEN next
              ELSE [next EXCEPT !.status = "raised", !.error = next.lastError]

\* The channel's history after one POST of the call `after`, which waited
\* `delay` milliseconds after it.
Posted(c, after, delay) ==
  [chan EXCEPT ![c] =
     [@ EXCEPT !.posts = @ + 1,
               !.simplePosts = @ + (IF after.kind = "simple" THEN 1 ELSE 0),
               !.oks = @ + (IF after.lastResp = "ok" THEN 1 ELSE 0),
               !.lastResp = after.lastResp,
               !.fullResult = IF after.kind = "full" /\ after.status # "running"
                                THEN after.status ELSE @,
               !.simpleResult = IF after.kind = "simple" /\ after.status # "running"
                                  THEN after.status ELSE @,
               !.waited = @ + delay,
               !.firstPostAt = IF @ = -1 THEN clock ELSE @]]

\* The channel's history when the reporter is done with it.
Finished(c, status) ==
  [chan EXCEPT ![c] = [@ EXCEPT !.status = status, !.finishedAt = clock]]

\* The channel's history when a delivery call of the given kind is entered.
Entered(c, kind) ==
  [chan EXCEPT ![c] =
     [@ EXCEPT !.fullCalls = @ + (IF kind = "full" THEN 1 ELSE 0),
               !.simpleCalls = @ + (IF kind = "simple" THEN 1 ELSE 0)]]

\* The Slack delivery call whose backoff timers are not awaited.
SlackPost_notAwaited ==
  /\ pc \in {"slackFull", "slackSimple"}
  /\ call.status = "running"
  /\ \E resp \in Responses :
       LET after == SlackUtils_sendToSlack(call, resp)
           delay == SumSeq(after.waits) - SumSeq(call.waits)
       IN /\ call' = after
          /\ chan' = Posted("slack", after, delay)
          /\ clock' = clock
  /\ UNCHANGED <<options, testResults, failures, pc, summary, onEndResult,
                 recorded,
                 startTime, ends, fmt, env, results>>

\* The webhook answers one POST of the Slack delivery call in progress.
SlackPost ==
  /\ pc \in {"slackFull", "slackSimple"}
  /\ call.status = "running"
  /\ \E resp \in Responses :
       LET after == SlackUtils_sendToSlack(call, resp)
           delay == SumSeq(after.waits) - SumSeq(call.waits)
       IN /\ call' = after
          /\ chan' = Posted("slack", after, delay)
          /\ clock' = clock + delay
  /\ UNCHANGED <<options, testResults, failures, pc, summary, onEndResult,
                 recorded,
                 startTime, ends, fmt, env, results>>

\* The webhook answers one POST of the Teams delivery call in progress.
TeamsPost ==
  /\ pc \in {"teamsFull", "teamsSimple"}
  /\ call.status = "running"
  /\ \E resp \in Responses :
       LET after == TeamsUtils_sendToTeams(call, resp)
           delay == SumSeq(after.waits) - SumSeq(call.waits)
       IN /\ call' = after
          /\ chan' = Posted("teams", after, delay)
          /\ clock' = clock + delay
  /\ UNCHANGED <<options, testResults, failures, pc, summary, onEndResult,
                 recorded,
                 startTime, ends, fmt, env, results>>

----------------------------------------------------------------------------
\* sendToSlack without the webhook gate: the delivery is entered although no
\* Slack webhook URL is configured.
SlackReporter_sendToSlack_noUrlGate ==
  /\ pc = "sendToSlack"
  /\ IF options.onlyOnFailure /\ summary.failed = 0
       THEN /\ chan' = Finished("slack", "skipped")
            /\ pc' = "sendToTeams"
            /\ call' = call
       ELSE /\ call' = NewCall("slack", "full")
            /\ chan' = Entered("slack", "full")
            /\ pc' = "slackFull"
  /\ UNCHANGED <<options, testResults, failures, summary, clock, onEndResult,
                 recorded,
                 startTime, ends, fmt, env, results>>

\* SlackReporter.sendToSlack, from its entry to the first await: the
\* onlyOnFailure gate, the webhook gate, then the full-message delivery call.
SlackReporter_sendToSlack ==
  /\ pc = "sendToSlack"
  /\ IF options.onlyOnFailure /\ summary.failed = 0
       THEN /\ chan' = Finished("slack", "skipped")
            /\ pc' = "sendToTeams"
            /\ call' = call
       ELSE IF ~options.slackWebhookUrl
         THEN /\ chan' = Finished("slack", "skipped")
              /\ pc' = "sendToTeams"
              /\ call' = call
         ELSE /\ call' = NewCall("slack", "full")
              /\ chan' = Entered("slack", "full")
              /\ pc' = "slackFull"
  /\ UNCHANGED <<options, testResults, failures, summary, clock, onEndResult,
                 recorded,
                 startTime, ends, fmt, env, results>>

\* SlackReporter.sendToSlack, outer catch block: the full delivery raised,
\* the simplified message is sent as fallback.
SlackReporter_sendToSlack_catch ==
  /\ pc = "slackFull"
  /\ call.status = "raised"
  /\ call' = NewCall("slack", "simple")
  /\ chan' = Entered("slack", "simple")
  /\ pc' = "slackSimple"
  /\ UNCHANGED <<options, testResults, failures, summary, clock, onEndResult,
                 recorded,
                 startTime, ends, fmt, env, results>>

\* sendToSlack whose inner catch block gives up the whole report: onEnd
\* returns without calling sendToTeams.
SlackReporter_sendToSlack_return_giveUp ==
  /\ \/ /\ pc = "slackFull"
        /\ call.status = "returned"
        /\ chan' = Finished("slack", "sent")
        /\ pc' = "sendToTeams"
        /\ onEndResult' = onEndResult
     \/ /\ pc = "slackSimple"
        /\ call.status = "returned"
        /\ chan' = Finished("slack", "fallback")
        /\ pc' = "sendToTeams"
        /\ onEndResult' = onEndResult
     \/ /\ pc = "slackSimple"
        /\ call.status = "raised"
        /\ chan' = Finished("slack", "failed")
        /\ pc' = "done"
        /\ onEndResult' = "resolved"
  /\ UNCHANGED <<options, testResults, failures, summary, call, clock,
                 recorded,
                 startTime, ends, fmt, env, results>>

\* SlackReporter.sendToSlack returns to onEnd: the full delivery returned, or
\* the fallback delivery returned, or the fallback delivery raised and the
\* inner catch block logged the error.  onEnd goes on to this.sendToTeams.
SlackReporter_sendToSlack_return ==
  /\ \/ /\ pc = "slackFull"
        /\ call.status = "returned"
        /\ chan' = Finished("slack", "sent")
     \/ /\ pc = "slackSimple"
        /\ call.status = "returned"
        /\ chan' = Finished("slack", "fallback")
     \/ /\ pc = "slackSimple"
        /\ call.status = "raised"
        /\ chan' = Finished("slack", "failed")
  /\ pc' = "sendToTeams"
  /\ UNCHANGED <<options, testResults, failures, summary, call, clock,
                 onEndResult, recorded,
                 startTime, ends, fmt, env, results>>

\* sendToTeams without the onlyOnFailure gate.
SlackReporter_sendToTeams_noGate ==
  /\ pc = "sendToTeams"
  /\ IF ~options.teamsWebhookUrl
       THEN /\ chan' = Finished("teams", "skipped")
            /\ pc' = "done"
            /\ onEndResult' = "resolved"
            /\ call' = call
       ELSE /\ call' = NewCall("teams", "full")
            /\ chan' = Entered("teams", "full")
            /\ pc' = "teamsFull"
            /\ onEndResult' = onEndResult
  /\ UNCHANGED <<options, testResults, failures, summary, clock, recorded,
                 startTime, ends, fmt, env, results>>

\* SlackReporter.sendToTeams, from its entry to the first await.
SlackReporter_sendToTeams ==
  /\ pc = "sendToTeams"
  /\ IF options.onlyOnFailure /\ summary.failed = 0
       THEN /\ chan' = Finished("teams", "skipped")
            /\ pc' = "done"
            /\ onEndResult' = "resolved"
            /\ call' = call
       ELSE IF ~options.teamsWebhookUrl
         THEN /\ chan' = Finished("teams", "skipped")
              /\ pc' = "done"
              /\ onEndResult' = "resolved"
              /\ call' = call
         ELSE /\ call' = NewCall("teams", "full")
              /\ chan' = Entered("teams", "full")
              /\ pc' = "teamsFull"
              /\ onEndResult' = onEndResult
  /\ UNCHANGED <<options, testResults, failures, summary, clock, recorded,
                 startTime, ends, fmt, env, results>>

\* sendToTeams sending the fallback after the full delivery whatever its end.
SlackReporter_sendToTeams_catch_always ==
  /\ pc = "teamsFull"
  /\ call.status \in {"raised", "returned"}
  /\ call' = NewCall("teams", "simple")
  /\ chan' = Entered("teams", "simple")
  /\ pc' = "teamsSimple"
  /\ UNCHANGED <<options, testResults, failures, summary, clock, onEndResult,
                 recorded,
                 startTime, ends, fmt, env, results>>

\* SlackReporter.sendToTeams, outer catch block.
SlackReporter_sendToTeams_catch ==
  /\ pc = "teamsFull"
  /\ call.status = "raised"
  /\ call' = NewCall("teams", "simple")
  /\ chan' = Entered("teams", "simple")
  /\ pc' = "teamsSimple"
  /\ UNCHANGED <<options, testResults, failures, summary, clock, onEndResult,
                 recorded,
                 startTime, ends, fmt, env, results>>

\* sendToTeams whose inner catch block rethrows the fallback's error.
SlackReporter_sendToTeams_return_rethrow ==
  /\ \/ /\ pc = "teamsFull"
        /\ call.status = "returned"
        /\ chan' = Finished("teams", "sent")
        /\ onEndResult' = "resolved"
     \/ /\ pc = "teamsSimple"
        /\ call.status = "returned"
        /\ chan' = Finished("teams", "fallback")
        /\ onEndResult' = "resolved"
     \/ /\ pc = "teamsSimple"
        /\ call.status = "raised"
        /\ chan' = Finished("teams", "failed")
        /\ onEndResult' = "rejected"
  /\ pc' = "done"
  /\ UNCHANGED <<options, testResults, failures, summary, call, clock,
                 recorded,
                 startTime, ends, fmt, env, results>>

\* sendToTeams whose inner catch block never completes.
SlackReporter_sendToTeams_return_hang ==
  /\ \/ /\ pc = "teamsFull"
        /\ call.status = "returned"
        /\ chan' = Finished("teams", "sent")
     \/ /\ pc = "teamsSimple"
        /\ call.status = "returned"
        /\ chan' = Finished("teams", "fallback")
  /\ pc' = "done"
  /\ onEndResult' = "resolved"
  /\ UNCHANGED <<options, testResults, failures, summary, call, clock,
                 recorded,
                 startTime, ends, fmt, env, results>>

\* SlackReporter.sendToTeams returns to onEnd, which returns in its turn.
SlackReporter_sendToTeams_return ==
  /\ \/ /\ pc = "teamsFull"
        /\ call.status = "returned"
        /\ chan' = Finished("teams", "sent")
     \/ /\ pc = "teamsSimple"
        /\ call.status = "returned"
        /\ chan' = Finished("teams", "fallback")
     \/ /\ pc = "teamsSimple"
        /\ call.status = "raised"
        /\ chan' = Finished("teams", "failed")
  /\ pc' = "done"
  /\ onEndResult' = "resolved"
  /\ UNCHANGED <<options, testResults, failures, summary, call, clock,
                 recorded,
                 startTime, ends, fmt, env, results>>

Next ==
  \/ onBegin
  \/ \E test \in TestCases, result \in TestResults : onTestEnd(test, result)
  \/ onEnd
  \/ SlackReporter_sendToSlack
  \/ SlackPost
  \/ SlackReporter_sendToSlack_catch
  \/ SlackReporter_sendToSlack_return
  \/ SlackReporter_sendToTeams
  \/ TeamsPost
  \/ SlackReporter_sendToTeams_catch
  \/ SlackReporter_sendToTeams_return

Spec == Init /\ [][Next]_vars

----------------------------------------------------------------------------
\* A host that does not keep to the lifecycle: it calls onEnd again after
\* onEnd has returned, and it reports a test after onEnd.  The reporter has
\* no phase field: onEnd and onTestEnd run their bodies whenever called.

\* SlackReporter.onEnd, called once more after it has returned.
onEnd_again ==
  /\ pc = "done"
  /\ ends < MaxEnds
  /\ \E endTime \in EndDates : onEnd_body(endTime)

\* SlackReporter.onTestEnd(test, result), called after onEnd has returned.
onTestEnd_late(test, result) ==
  /\ pc = "done"
  /\ recorded.n < MaxTests
  /\ onTestEnd_body(test, result)

NextHost ==
  \/ Next
  \/ onEnd_again
  \/ \E test \in TestCases, result \in TestResults : onTestEnd_late(test, result)

\* The configurations under which the free host is explored: one webhook
\* configured, every run reported.
HostInit ==
  /\ Init
  /\ ~options.onlyOnFailure
  /\ options.slackWebhookUrl # options.teamsWebhookUrl

SpecHost == HostInit /\ [][NextHost]_vars

----------------------------------------------------------------------------
----------------------------------------------------------------------------
\* The message formatters of SlackUtils and TeamsUtils.  A message is a
\* record of its parts; a text built from a template is the record of the
\* values the template interpolates, numbers rendered as they are in the text.

\* COLORS.SUCCESS and COLORS.FAILURE (the same in SlackUtils and TeamsUtils)
COLOR_SUCCESS == "#36a64f"
COLOR_FAILURE == "#ff0000"

\* The two status emoji: the cross mark and the check mark.
EMOJI_FAILURE == "cross mark"
EMOJI_SUCCESS == "check mark"

\* const maxErrorLength = 200 (Slack), 150 (Teams)
SlackMaxErrorLength == 200
TeamsMaxErrorLength == 150

\* formatDuration showing the minutes of the whole duration after the hours.
SlackUtils_formatDuration_allMinutes(duration) ==
  IF duration < 1000 THEN ToString(duration) \o "ms"
  ELSE LET seconds == duration \div 1000
           minutes == seconds \div 60
           hours == minutes \div 60
       IN IF hours > 0
            THEN ToString(hours) \o "h " \o ToString(minutes) \o "m "
                   \o ToString(seconds % 60) \o "s"
            ELSE IF minutes > 0
              THEN ToString(minutes) \o "m " \o ToString(seconds % 60) \o "s"
              ELSE ToString(seconds) \o "s"

\* SlackUtils.formatDuration
SlackUtils_formatDuration(duration) ==
  IF duration < 1000 THEN ToString(duration) \o "ms"
  ELSE LET seconds == duration \div 1000
           minutes == seconds \div 60
           hours == minutes \div 60
       IN IF hours > 0
            THEN ToString(hours) \o "h " \o ToString(minutes % 60) \o "m "
                   \o ToString(seconds % 60) \o "s"
            ELSE IF minutes > 0
              THEN ToString(minutes) \o "m " \o ToString(seconds % 60) \o "s"
              ELSE ToString(seconds) \o "s"

\* TeamsUtils.formatDuration
TeamsUtils_formatDuration(duration) ==
  IF duration < 1000 THEN ToString(duration) \o "ms"
  ELSE LET seconds == duration \div 1000
           minutes == seconds \div 60
           hours == minutes \div 60
       IN IF hours > 0
            THEN ToString(hours) \o "h " \o ToString(minutes % 60) \o "m "
                   \o ToString(seconds % 60) \o "s"
            ELSE IF minutes > 0
              THEN ToString(minutes) \o "m " \o ToString(seconds % 60) \o "s"
              ELSE ToString(seconds) \o "s"

\* failure.file.split('/').pop() || failure.file, the file being the sequence
\* of its path segments
FileName(file) ==
  IF file # <<>> /\ file[Len(file)] # "" THEN <<file[Len(file)]>> ELSE file

\* String.prototype.replace(/\n/g, ' '), the text being a sequence of
\* characters
ReplaceNewlines(text) ==
  [i \in DOMAIN text |-> IF text[i] = "\n" THEN " " ELSE text[i]]

\* String.prototype.trim
RECURSIVE TrimStart(_)
TrimStart(text) ==
  IF text # <<>> /\ Head(text) = " " THEN TrimStart(Tail(text)) ELSE text

RECURSIVE TrimEnd(_)
TrimEnd(text) ==
  IF text # <<>> /\ text[Len(text)] = " "
    THEN TrimEnd(SubSeq(text, 1, Len(text) - 1))
    ELSE text

Trim(text) == TrimEnd(TrimStart(text))

\* The error message cut without the '...' that marks the cut.
ErrorMsg_noEllipsis(error, maxErrorLength) ==
  LET errorMsg == Trim(ReplaceNewlines(error)) IN
  IF Len(errorMsg) > maxErrorLength
    THEN SubSeq(errorMsg, 1, maxErrorLength)
    ELSE errorMsg

\* The error message as a failure entry shows it: newlines replaced, trimmed,
\* cut to maxErrorLength characters with '...' appended when longer.
ErrorMsg(error, maxErrorLength) ==
  LET errorMsg == Trim(ReplaceNewlines(error)) IN
  IF Len(errorMsg) > maxErrorLength
    THEN SubSeq(errorMsg, 1, maxErrorLength) \o <<".", ".", ".">>
    ELSE errorMsg

\* SlackUtils.formatTestFailure
SlackUtils_formatTestFailure(failure) ==
  [type |-> "section", kind |-> "failure",
   title |-> failure.title,
   fileName |-> FileName(failure.file),
   errorMsg |-> ErrorMsg(failure.error, SlackMaxErrorLength),
   screenshot |-> Truthy(failure.screenshotPath)]

\* A sequence that is present only under a condition.
SeqIf(cond, seq) == IF cond THEN seq ELSE <<>>

\* `Playwright Test Results${projectName ? ` - ${projectName}` : ''}`
TitleText(projectName) ==
  "Playwright Test Results"
    \o (IF Truthy(projectName) THEN " - " \o projectName ELSE "")

\* The failure details shown whenever the failure list is non-empty.
SlackShowsFailures_anyListed(s) == Len(s.failures) > 0

\* SlackUtils.createTestResultsMessage: if (failed > 0 && failures.length > 0)
SlackShowsFailures(s) == s.failed > 0 /\ Len(s.failures) > 0

\* TeamsUtils.createTestResultsMessage: if (failed > 0 && failures.length > 0)
TeamsShowsFailures(s) == s.failed > 0 /\ Len(s.failures) > 0

\* SlackUtils.createTestResultsMessage
SlackUtils_createTestResultsMessage(s) ==
  LET overallStatus == IF s.failed > 0 THEN "FAILED"
                       ELSE IF s.passed > 0 THEN "PASSED" ELSE "NO_TESTS"
      emoji == IF s.failed > 0 THEN EMOJI_FAILURE ELSE EMOJI_SUCCESS
      durationFormatted == SlackUtils_formatDuration(s.duration)
      summaryFields ==
        << [label |-> "Total", value |-> ToString(s.total)],
           [label |-> "Passed", value |-> ToString(s.passed)],
           [label |-> "Failed", value |-> ToString(s.failed)],
           [label |-> "Skipped", value |-> ToString(s.skipped)],
           [label |-> "Duration", value |-> durationFormatted] >>
        \o SeqIf(s.flaky > 0,
                 << [label |-> "Flaky", value |-> ToString(s.flaky)] >>)
        \o SeqIf(Truthy(s.environment),
                 << [label |-> "Environment", value |-> s.environment] >>)
      topFailures == Slice0(s.failures, TopFailures)
      blocks ==
        << [type |-> "header", kind |-> "header",
            text |-> TitleText(s.projectName)],
           [type |-> "section", kind |-> "fields", fields |-> summaryFields] >>
        \o SeqIf(Truthy(s.ciUrl),
                 << [type |-> "section", kind |-> "link", url |-> s.ciUrl,
                     text |-> "View Full Report"] >>)
        \o SeqIf(SlackShowsFailures(s),
                 << [type |-> "divider", kind |-> "divider"],
                    [type |-> "section", kind |-> "failedTests",
                     text |-> "*Failed Tests:*"] >>
                 \o [i \in 1..Len(topFailures) |->
                       SlackUtils_formatTestFailure(topFailures[i])]
                 \o SeqIf(Len(s.failures) > TopFailures,
                          << [type |-> "section", kind |-> "more",
                              more |-> Len(s.failures) - TopFailures] >>))
        \o << [type |-> "context", kind |-> "generatedAt",
               endTime |-> s.endTime] >>
  IN [channel |-> "slack", variant |-> "full",
      blocks |-> blocks,
      text |-> [emoji |-> emoji, status |-> overallStatus,
                passed |-> s.passed, total |-> s.total]]

\* createSimpleMessage that always shows the skipped count.
SlackUtils_createSimpleMessage_alwaysSkipped(s) ==
  LET emoji == IF s.failed > 0 THEN EMOJI_FAILURE ELSE EMOJI_SUCCESS
      status == IF s.failed > 0 THEN "FAILED" ELSE "PASSED"
      durationFormatted == SlackUtils_formatDuration(s.duration)
  IN [channel |-> "slack", variant |-> "simple",
      text |-> [emoji |-> emoji, status |-> status,
                projectName |-> IF Truthy(s.projectName) THEN s.projectName
                                ELSE "",
                lines |->
                  << [label |-> "Total", value |-> ToString(s.total)],
                     [label |-> "Passed", value |-> ToString(s.passed)],
                     [label |-> "Failed", value |-> ToString(s.failed)],
                     [label |-> "Skipped", value |-> ToString(s.skipped)],
                     [label |-> "Duration", value |-> durationFormatted] >>]]

\* SlackUtils.createSimpleMessage
SlackUtils_createSimpleMessage(s) ==
  LET emoji == IF s.failed > 0 THEN EMOJI_FAILURE ELSE EMOJI_SUCCESS
      status == IF s.failed > 0 THEN "FAILED" ELSE "PASSED"
      durationFormatted == SlackUtils_formatDuration(s.duration)
  IN [channel |-> "slack", variant |-> "simple",
      text |-> [emoji |-> emoji, status |-> status,
                projectName |-> IF Truthy(s.projectName) THEN s.projectName
                                ELSE "",
                lines |->
                  << [label |-> "Total", value |-> ToString(s.total)],
                     [label |-> "Passed", value |-> ToString(s.passed)],
                     [label |-> "Failed", value |-> ToString(s.failed)] >>
                  \o SeqIf(s.skipped > 0,
                           << [label |-> "Skipped",
                               value |-> ToString(s.skipped)] >>)
                  \o << [label |-> "Duration", value |-> durationFormatted] >>]]

\* TeamsUtils.createTestResultsMessage
TeamsUtils_createTestResultsMessage(s) ==
  LET color == IF s.failed > 0 THEN COLOR_FAILURE ELSE COLOR_SUCCESS
      emoji == IF s.failed > 0 THEN EMOJI_FAILURE ELSE EMOJI_SUCCESS
      durationFormatted == TeamsUtils_formatDuration(s.duration)
      facts ==
        << [name |-> "Total Tests", value |-> ToString(s.total)],
           [name |-> "Passed", value |-> ToString(s.passed)],
           [name |-> "Failed", value |-> ToString(s.failed)],
           [name |-> "Skipped", value |-> ToString(s.skipped)],
           [name |-> "Duration", value |-> durationFormatted] >>
        \o SeqIf(s.flaky > 0,
                 << [name |-> "Flaky", value |-> ToString(s.flaky)] >>)
        \o SeqIf(Truthy(s.environment),
                 << [name |-> "Environment", value |-> s.environment] >>)
      topFailures == Slice0(s.failures, TopFailures)
      failureFacts ==
        [i \in 1..Len(topFailures) |->
           [name |-> [index |-> i, title |-> topFailures[i].title],
            value |-> [fileName |-> FileName(topFailures[i].file),
                       errorMsg |-> ErrorMsg(topFailures[i].error,
                                             TeamsMaxErrorLength)]]]
      sections ==
        << [kind |-> "main",
            activityTitle |-> [emoji |-> emoji,
                               text |-> TitleText(s.projectName)],
            activitySubtitle |-> [passed |-> s.passed, total |-> s.total],
            facts |-> facts, markdown |-> TRUE] >>
        \o SeqIf(TeamsShowsFailures(s),
                 << [kind |-> "failedTests", activityTitle |-> "Failed Tests",
                     facts |-> failureFacts, markdown |-> TRUE] >>
                 \o SeqIf(Len(s.failures) > TopFailures,
                          << [kind |-> "more",
                              activityTitle |-> "Additional Failures",
                              facts |-> << [name |-> "More failures",
                                            more |-> Len(s.failures)
                                                       - TopFailures] >>,
                              markdown |-> TRUE] >>))
      potentialAction ==
        SeqIf(Truthy(s.ciUrl),
              << [type |-> "OpenUri", name |-> "View Full Report",
                  uri |-> s.ciUrl] >>)
  IN [channel |-> "teams", variant |-> "full",
      summary |-> [passed |-> s.passed, total |-> s.total],
      themeColor |-> color,
      sections |-> sections,
      potentialAction |-> potentialAction]

\* createSimpleMessage whose colour also turns red on skipped tests.
TeamsUtils_createSimpleMessage_redOnSkipped(s) ==
  LET emoji == IF s.failed > 0 THEN EMOJI_FAILURE ELSE EMOJI_SUCCESS
      color == IF s.failed > 0 \/ s.skipped > 0 THEN COLOR_FAILURE
               ELSE COLOR_SUCCESS
      durationFormatted == TeamsUtils_formatDuration(s.duration)
  IN [channel |-> "teams", variant |-> "simple",
      summary |-> [passed |-> s.passed, total |-> s.total],
      themeColor |-> color,
      sections |->
        << [kind |-> "main",
            activityTitle |-> [emoji |-> emoji,
                               text |-> TitleText(s.projectName)],
            facts |-> << [name |-> "Passed", value |-> ToString(s.passed)],
                         [name |-> "Failed", value |-> ToString(s.failed)],
                         [name |-> "Total", value |-> ToString(s.total)],
                         [name |-> "Duration", value |-> durationFormatted] >>,
            markdown |-> FALSE] >>,
      potentialAction |-> <<>>]

\* TeamsUtils.createSimpleMessage
TeamsUtils_createSimpleMessage(s) ==
  LET emoji == IF s.failed > 0 THEN EMOJI_FAILURE ELSE EMOJI_SUCCESS
      color == IF s.failed > 0 THEN COLOR_FAILURE ELSE COLOR_SUCCESS
      durationFormatted == TeamsUtils_formatDuration(s.duration)
  IN [channel |-> "teams", variant |-> "simple",
      summary |-> [passed |-> s.passed, total |-> s.total],
      themeColor |-> color,
      sections |->
        << [kind |-> "main",
            activityTitle |-> [emoji |-> emoji,
                               text |-> TitleText(s.projectName)],
            facts |-> << [name |-> "Passed", value |-> ToString(s.passed)],
                         [name |-> "Failed", value |-> ToString(s.failed)],
                         [name |-> "Total", value |-> ToString(s.total)],
                         [name |-> "Duration", value |-> durationFormatted] >>,
            markdown |-> FALSE] >>,
      potentialAction |-> <<>>]

----------------------------------------------------------------------------
\* The formatters applied to summaries of every shape calculateTestSummary
\* can build.  The failure list may be longer than the failed count (a failed
\* attempt overwritten by its passing retry) and shorter (maxFailuresToShow).

\* The i-th failure record of a summary.
ListedFailure(i) ==
  [title |-> "test " \o ToString(i),
   file |-> <<"tests", "suite" \o ToString(i) \o ".spec.ts">>,
   error |-> <<"E", "r", "r", "\n", "a", "t", " ">>,
   duration |-> 100 * i,
   screenshotPath |-> Undefined]

Durations == {500, 125000}

Summaries ==
  { [built |-> TRUE,
     total |-> p + f + k, passed |-> p, failed |-> f, skipped |-> k,
     flaky |-> y, duration |-> d,
     startTime |-> 2000, endTime |-> 2000 + d,
     failures |-> [i \in 1..n |-> ListedFailure(i)],
     projectName |-> pn, ciUrl |-> ci, environment |-> en] :
    p \in 0..MaxPassed, f \in 0..MaxFailed, k \in 0..MaxSkipped,
    y \in 0..1, n \in 0..MaxListed, d \in Durations,
    pn \in ProjectNames, ci \in CiUrls, en \in Environments }

FormatInit ==
  /\ ReporterInit
  /\ PlainRun
  /\ ~options.onlyOnFailure
  /\ options.slackWebhookUrl
  /\ options.teamsWebhookUrl
  /\ options.maxFailuresToShow = 0
  /\ \E s \in Summaries :
       /\ s.flaky <= s.passed
       /\ fmt = [applied |-> "summary", summary |-> s, message |-> Undefined]

\* A formatter is applied to the summary and its message kept.
Format(applied, message) ==
  /\ fmt.applied = "summary"
  /\ fmt' = [fmt EXCEPT !.applied = applied, !.message = message]
  /\ UNCHANGED <<options, testResults, failures, pc, summary, call, chan,
                 clock, onEndResult, recorded, startTime, ends, env,
                 results>>

FormatSlackFull ==
  Format("slackFull", SlackUtils_createTestResultsMessage(fmt.summary))

FormatSlackSimple ==
  Format("slackSimple", SlackUtils_createSimpleMessage(fmt.summary))

FormatTeamsFull ==
  Format("teamsFull", TeamsUtils_createTestResultsMessage(fmt.summary))

FormatTeamsSimple ==
  Format("teamsSimple", TeamsUtils_createSimpleMessage(fmt.summary))

NextFormat ==
  \/ FormatSlackFull
  \/ FormatSlackSimple
  \/ FormatTeamsFull
  \/ FormatTeamsSimple

SpecFormat == FormatInit /\ [][NextFormat]_vars

\* C1: in every summary built at onEnd, total = passed + failed + skipped;
\* interrupted outcomes are counted as skipped and timed-out ones as failed.
C1_TotalIsSumOfClasses ==
  summary.built =>
    /\ summary.total = summary.passed + summary.failed + summary.skipped
    /\ summary.skipped >= CountStatus(testResults, {"interrupted"})
    /\ summary.failed >= CountStatus(testResults, {"timedOut"})

\* A summary was built over a stored interrupted result and a stored timed-out
\* result.
C1_Witness ==
  /\ summary.built
  /\ CountStatus(testResults, {"interrupted"}) = 1
  /\ CountStatus(testResults, {"timedOut"}) = 1

\* C2: after n onTestEnd calls the summary built at onEnd has total = n.
C2_TotalCountsEveryOutcome ==
  summary.built => summary.total = recorded.n

\* C3: the summary's counters equal the per-class counts of the outcomes
\* handed to onTestEnd, and flaky <= passed.
C3_CountersMatchRecorded ==
  summary.built =>
    /\ summary.passed = recorded.passed
    /\ summary.flaky = recorded.flaky
    /\ summary.failed = recorded.failed
    /\ summary.skipped = recorded.skipped
    /\ summary.flaky <= summary.passed

\* C4: in every summary built at onEnd the failure list is no longer than the
\* failed count.
C4_FailuresAtMostFailed ==
  summary.built => Len(summary.failures) <= summary.failed

\* Whether onEnd lets the channel through its two gates.
Attempted(c) ==
  /\ ~(options.onlyOnFailure /\ summary.failed = 0)
  /\ IF c = "slack" THEN options.slackWebhookUrl ELSE options.teamsWebhookUrl

\* C5: with onlyOnFailure set and no failed test in the summary, onEnd sends
\* no HTTP request to either webhook, whatever URLs are configured.
C5_NoRequestWhenGated ==
  (summary.built /\ options.onlyOnFailure /\ summary.failed = 0) =>
    \A c \in Channels : chan[c].posts = 0 /\ chan[c].fullCalls = 0

\* onEnd has finished a run with outcomes, no failure, onlyOnFailure set and
\* both webhooks configured.
C5_Witness ==
  /\ pc = "done"
  /\ options.onlyOnFailure
  /\ options.slackWebhookUrl
  /\ options.teamsWebhookUrl
  /\ summary.failed = 0
  /\ summary.total > 0

\* C6: on each channel the full message is delivered first; the fallback is
\* delivered if and only if the full delivery raised, and once; a fallback
\* that raises is swallowed, so onEnd never rejects.
C6_FallbackIffFullRaised ==
  /\ \A c \in Channels :
       /\ chan[c].fullCalls <= 1
       /\ chan[c].simpleCalls <= 1
       /\ (summary.built /\ Attempted(c) /\ chan[c].status # "pending")
            => chan[c].fullCalls = 1
       /\ chan[c].simpleCalls = 1 => chan[c].fullResult = "raised"
       /\ chan[c].simplePosts > 0 => chan[c].simpleCalls = 1
       /\ (chan[c].status # "pending" /\ chan[c].fullResult = "raised")
            => chan[c].simpleCalls = 1
       /\ chan[c].status = "failed" <=> (chan[c].status # "pending"
                                          /\ chan[c].simpleResult = "raised")
  /\ onEndResult # "rejected"
  /\ pc = "done" => onEndResult = "resolved"

\* onEnd has resolved although the full and the fallback delivery both raised
\* on Teams.
C6_Witness ==
  /\ pc = "done"
  /\ onEndResult = "resolved"
  /\ chan["teams"].fullResult = "raised"
  /\ chan["teams"].simpleResult = "raised"
  /\ chan["teams"].simpleCalls = 1

\* C7: the channels are independent: when onEnd is over, every channel that
\* passes its gates has had its delivery attempted and completed, whatever
\* happened on the other one; no Teams request precedes the end of the Slack
\* delivery, and Slack has waited for nothing but its own backoff.
C7_ChannelsIndependent ==
  /\ pc = "done" =>
       \A c \in Channels :
         Attempted(c) => /\ chan[c].fullCalls = 1
                         /\ chan[c].posts >= 1
                         /\ chan[c].status \in {"sent", "fallback", "failed"}
  /\ chan["teams"].fullCalls > 0 => chan["slack"].status # "pending"
  /\ chan["slack"].status # "pending" =>
       chan["slack"].finishedAt = chan["slack"].waited

\* Slack failed twice (full and fallback) and Teams was still delivered.
C7_Witness ==
  /\ pc = "done"
  /\ chan["slack"].status = "failed"
  /\ chan["teams"].status = "sent"

\* C8: a delivery call makes at most 3 POSTs and stops at the first 2xx: it
\* gets at most one 2xx, which is its last response, and it returns exactly
\* then; after k failed POSTs and a 2xx it has made k + 1 POSTs.
C8_AtMostThreeStopAtSuccess ==
  call.status # "none" =>
    /\ call.sent <= 3
    /\ call.oks <= 1
    /\ call.oks = 1 <=> call.status = "returned"
    /\ call.oks = 1 => call.lastResp = "ok"
    /\ call.status = "returned" => call.sent = Len(call.waits) + 1

\* A Slack delivery call returned after two failed POSTs and a third, 2xx one.
C8_Witness ==
  /\ call.status = "returned"
  /\ call.channel = "slack"
  /\ call.sent = 3
  /\ call.oks = 1

\* C9: a delivery call raises exactly when its third POST has failed, all
\* three having failed, and the error it raises carries the error of the
\* third POST.
C9_RaisesLastErrorAfterThird ==
  call.status # "none" =>
    /\ call.status = "raised" <=> (call.sent = 3 /\ call.oks = 0)
    /\ call.status = "raised" =>
         /\ call.error = call.lastResp
         /\ call.error \in Responses \ {"ok"}
    /\ call.sent <= 3

\* A Teams delivery call raised with a transport error as its last error.
C9_Witness ==
  /\ call.status = "raised"
  /\ call.channel = "teams"
  /\ call.sent = 3
  /\ call.error = "transport"

\* C10: the waits of one delivery call are 2 s after the first failed POST and
\* 4 s after the second, none after the third or after a 2xx: at most 6 s.
C10_BackoffTwoThenFour ==
  call.status # "none" =>
    /\ call.waits \in {<<>>, <<2000>>, <<2000, 4000>>}
    /\ Len(call.waits) = Min(call.sent - call.oks, 2)
    /\ SumSeq(call.waits) <= 6000

\* A delivery call has failed three times and waited 2 s and 4 s.
C10_Witness ==
  /\ call.status = "raised"
  /\ call.sent = 3
  /\ call.waits = <<2000, 4000>>

\* Whether a webhook URL is configured for the channel.
Configured(c) ==
  IF c = "slack" THEN options.slackWebhookUrl ELSE options.teamsWebhookUrl

\* C11: a channel without webhook URL gets no HTTP request and no delivery
\* call; it is skipped, the other channel is still served and onEnd resolves.
C11_NoUrlNoRequest ==
  \A c \in Channels :
    ~Configured(c) =>
      /\ chan[c].posts = 0
      /\ chan[c].fullCalls = 0
      /\ chan[c].simpleCalls = 0
      /\ chan[c].status \in {"pending", "skipped"}
      /\ pc = "done" =>
           /\ chan[c].status = "skipped"
           /\ onEndResult = "resolved"
           /\ \A d \in Channels \ {c} :
                Attempted(d) => chan[d].status \in {"sent", "fallback", "failed"}

\* onEnd has resolved in a run without Slack webhook URL where the Teams
\* delivery went through.
C11_Witness ==
  /\ pc = "done"
  /\ onEndResult = "resolved"
  /\ ~options.slackWebhookUrl
  /\ chan["slack"].status = "skipped"
  /\ chan["teams"].status = "sent"

\* C12: the summary's failure list is the first min(n, maxFailuresToShow) of
\* the n recorded failure records, in recording order, for every configured
\* maxFailuresToShow >= 0.
C12_FirstMaxFailures ==
  summary.built =>
    summary.failures =
      SubSeq(failures, 1, Min(Len(failures), options.maxFailuresToShow))

\* C16: the summary's duration is endTime - startTime in milliseconds, and 0
\* when the end timestamp is earlier than the start timestamp.
C16_DurationClamped ==
  summary.built =>
    summary.duration = IF summary.endTime < summary.startTime THEN 0
                       ELSE summary.endTime - summary.startTime

\* C14: a second onEnd is rejected: at most one summary is built and at most
\* one round of deliveries is made, whatever callbacks the host issues.
C14_AtMostOneSummary ==
  /\ ends <= 1
  /\ \A c \in Channels : chan[c].fullCalls <= 1

\* C15: once onEnd has been invoked, no onTestEnd changes the stored results
\* or the failure list.
C15_NothingRecordedAfterEnd ==
  [][ends > 0 => (testResults' = testResults /\ failures' = failures)]_vars

----------------------------------------------------------------------------
\* Reading the messages the formatters have built.

Formatted == fmt.applied \in {"slackFull", "slackSimple", "teamsFull", "teamsSimple"}
FormattedFull == fmt.applied \in {"slackFull", "teamsFull"}
FormattedSimple == fmt.applied \in {"slackSimple", "teamsSimple"}

\* The blocks of a Slack message or the sections of a Teams message.
Parts(m) ==
  IF m.channel = "teams" THEN m.sections
  ELSE IF m.variant = "full" THEN m.blocks ELSE <<>>

\* The positions of the parts of the given kind.
PartsOfKind(m, kind) == {i \in DOMAIN Parts(m) : Parts(m)[i].kind = kind}

\* The labels of the summary fields of a message, in their order.
FieldLabels(m) ==
  IF m.channel = "teams"
    THEN [i \in DOMAIN m.sections[1].facts |-> m.sections[1].facts[i].name]
    ELSE IF m.variant = "full"
      THEN [i \in DOMAIN m.blocks[2].fields |-> m.blocks[2].fields[i].label]
      ELSE [i \in DOMAIN m.text.lines |-> m.text.lines[i].label]

\* The numbers of omitted failures the message states, one per line.
OmittedStated(m) ==
  IF m.channel = "teams"
    THEN {m.sections[i].facts[1].more : i \in PartsOfKind(m, "more")}
    ELSE {m.blocks[i].more : i \in PartsOfKind(m, "more")}

\* The number of failure entries of a message.
FailureEntries(m) ==
  IF m.channel = "teams"
    THEN IF PartsOfKind(m, "failedTests") = {} THEN 0
         ELSE Len(m.sections[CHOOSE i \in PartsOfKind(m, "failedTests") : TRUE].facts)
    ELSE Cardinality(PartsOfKind(m, "failure"))

\* The number of 'View Full Report' elements of a message.
ReportLinks(m) ==
  IF m.channel = "teams" THEN Len(m.potentialAction)
  ELSE Cardinality(PartsOfKind(m, "link"))

\* The emoji of a message.
StatusEmoji(m) ==
  IF m.channel = "teams" THEN m.sections[1].activityTitle.emoji
  ELSE m.text.emoji

\* C13: whenever the failed count exceeds the length of the failure list, the
\* full message of each channel has exactly one line stating failed minus
\* listed omitted failures.
C13_OmittedLine ==
  (FormattedFull /\ fmt.summary.failed > Len(fmt.summary.failures)) =>
    /\ Cardinality(PartsOfKind(fmt.message, "more")) = 1
    /\ OmittedStated(fmt.message)
         = {fmt.summary.failed - Len(fmt.summary.failures)}

TotalLabel(m) == IF m.channel = "teams" THEN "Total Tests" ELSE "Total"

\* C18: the fields of a full message are Total, Passed, Failed, Skipped,
\* Duration, then Flaky if and only if flaky > 0, then Environment if and
\* only if an environment label is provided.
C18_FieldOrder ==
  FormattedFull =>
    FieldLabels(fmt.message) =
      <<TotalLabel(fmt.message), "Passed", "Failed", "Skipped", "Duration">>
        \o (IF fmt.summary.flaky > 0 THEN <<"Flaky">> ELSE <<>>)
        \o (IF fmt.summary.environment # Undefined
              THEN <<"Environment">> ELSE <<>>)

\* A full Teams message with a Flaky field and no Environment field.
C18_Witness ==
  /\ fmt.applied = "teamsFull"
  /\ fmt.summary.flaky > 0
  /\ fmt.summary.environment = Undefined
  /\ Len(FieldLabels(fmt.message)) = 6

\* C19 as stated: the fallback message of each channel shows Total, Passed,
\* Failed, Skipped and the duration for every summary, and neither failure
\* detail nor a CI link.
C19_FallbackAllCounts ==
  FormattedSimple =>
    /\ {FieldLabels(fmt.message)[i] : i \in DOMAIN FieldLabels(fmt.message)}
         = {"Total", "Passed", "Failed", "Skipped", "Duration"}
    /\ FailureEntries(fmt.message) = 0
    /\ ReportLinks(fmt.message) = 0

\* C19 as amended: the fallback message shows Total, Passed, Failed and the
\* duration, and neither failure detail nor a CI link nor an omitted-failures
\* line; Slack adds Skipped exactly when skipped > 0, Teams never shows it.
C19_FallbackCounts ==
  FormattedSimple =>
    LET m == fmt.message IN
    /\ m.channel = "slack" =>
         FieldLabels(m) = <<"Total", "Passed", "Failed">>
                            \o (IF fmt.summary.skipped > 0
                                  THEN <<"Skipped">> ELSE <<>>)
                            \o <<"Duration">>
    /\ m.channel = "teams" =>
         FieldLabels(m) = <<"Passed", "Failed", "Total", "Duration">>
    /\ FailureEntries(m) = 0
    /\ ReportLinks(m) = 0
    /\ PartsOfKind(m, "more") = {}

\* A Slack fallback message for a summary with failures listed, a CI URL and
\* no skipped test.
C19_Witness ==
  /\ fmt.applied = "slackSimple"
  /\ fmt.summary.skipped = 0
  /\ fmt.summary.failed > 0
  /\ Len(fmt.summary.failures) > 0
  /\ fmt.summary.ciUrl # Undefined

\* C20: a full message has a failure detail block if and only if failed > 0
\* and the failure list is non-empty; without the block it has no failure
\* entry and no omitted-failures line.
C20_FailureBlockIff ==
  FormattedFull =>
    LET m == fmt.message
        shown == fmt.summary.failed > 0 /\ Len(fmt.summary.failures) > 0
    IN /\ PartsOfKind(m, "failedTests") # {} <=> shown
       /\ FailureEntries(m) > 0 <=> shown
       /\ ~shown => PartsOfKind(m, "more") = {}

\* A full Slack message for a summary with no failed test and a non-empty
\* failure list.
C20_Witness ==
  /\ fmt.applied = "slackFull"
  /\ fmt.summary.failed = 0
  /\ Len(fmt.summary.failures) > 0
  /\ FailureEntries(fmt.message) = 0


----------------------------------------------------------------------------
\* Whole runs reported to the formatters: the tests of a run are handed to
\* onTestEnd one after the other, calculateTestSummary builds the summary and
\* the four formatters are applied to it.

\* testResults after onTestEnd has been called with tests[i], results[i] for
\* every i in order.
RECURSIVE ReplayResults(_, _)
ReplayResults(tests, outcomes) ==
  IF tests = <<>> THEN EmptyMap
  ELSE LET n == Len(tests) IN
       MapSet(ReplayResults(SubSeq(tests, 1, n - 1), SubSeq(outcomes, 1, n - 1)),
              TestId(tests[n]), outcomes[n])

\* failures after the same calls.
RECURSIVE ReplayFailures(_, _)
ReplayFailures(tests, outcomes) ==
  IF tests = <<>> THEN <<>>
  ELSE LET n == Len(tests)
           sofar == ReplayFailures(SubSeq(tests, 1, n - 1),
                                   SubSeq(outcomes, 1, n - 1))
       IN IF IsFailure(outcomes[n])
            THEN Append(sofar, TestFailure(tests[n], outcomes[n]))
            ELSE sofar

\* The summary onEnd builds for a run.
Reported(run, opts, e) ==
  calculateTestSummary(ReplayResults(run.tests, run.results),
                       ReplayFailures(run.tests, run.results),
                       opts, e, 2000, 45000, 47000)

\* A failed attempt with the given error message and attachments.
FailedWith(error, attachments) ==
  [status |-> "failed", retry |-> 0, error |-> error, duration |-> 1200,
   attachments |-> attachments]

\* A text of n characters with a newline at every seventh place.
Chars(n) == [k \in 1..n |-> IF k % 7 = 0 THEN "\n" ELSE "e"]

\* Error messages around the two budgets of the failure entries, with and
\* without white space at their ends.
EntryErrors ==
  { <<"E", "r", "r", "\n", "a", "t", " ">>,
    Chars(TeamsMaxErrorLength),
    Chars(TeamsMaxErrorLength + 1),
    Chars(TeamsMaxErrorLength) \o <<"\n">>,
    Chars(SlackMaxErrorLength),
    Chars(SlackMaxErrorLength + 1),
    <<" ">> \o Chars(SlackMaxErrorLength) }

EntryTests ==
  { [parent |-> "login", title |-> "valid",
     file |-> <<"", "repo", "tests", "login.spec.ts">>],
    [parent |-> "cart", title |-> "add_item",
     file |-> <<"tests", "cart.spec.ts">>] }

\* Runs of one to MaxEntries failed tests.
EntryRuns ==
  UNION { { [tests |-> ts, results |-> rs] :
              ts \in [1..n -> EntryTests],
              rs \in [1..n -> {FailedWith(e, <<>>) : e \in EntryErrors}] } :
          n \in 1..MaxEntries }

\* A run of one failed test and a run of one passed test.
CiRuns ==
  { [tests |-> <<t>>, results |-> <<r>>] :
      t \in {x \in EntryTests : x.parent = "login"},
      r \in {FailedWith(<<"n", "o">>, <<>>)}
              \cup {x \in TestResults : x.status = "passed" /\ x.retry = 0} }

\* What a failed attempt may have attached: nothing, a screenshot by name, a
\* trace, a picture whose path has 'screenshot' in it, a screenshot kept in
\* memory (no path), a trace and then a screenshot.
Attachments ==
  { <<>>,
    << [name |-> "screenshot", path |-> "test-results/screenshot-1.png"] >>,
    << [name |-> "trace", path |-> "test-results/trace.zip"] >>,
    << [name |-> "failure", path |-> "test-results/screenshot-2.png"] >>,
    << [name |-> "screenshot", path |-> Undefined] >>,
    << [name |-> "trace", path |-> "test-results/trace.zip"],
       [name |-> "screenshot", path |-> "test-results/screenshot-1.png"] >> }

\* Runs of one failed test with its attachments.
ShotRuns ==
  { [tests |-> <<t>>, results |-> <<FailedWith(<<"n", "o">>, a)>>] :
      t \in {x \in EntryTests : x.parent = "login"}, a \in Attachments }

\* The i-th test of a long run.
SliceTest(i) ==
  [parent |-> "suite", title |-> "test " \o ToString(i),
   file |-> <<"tests", "suite.spec.ts">>]

\* Runs of n tests that fail, each of them then retried and passed or not.
SliceRuns ==
  { [tests |-> [i \in 1..(IF retried THEN 2 * n ELSE n) |->
                  SliceTest(IF i > n THEN i - n ELSE i)],
     results |-> [i \in 1..(IF retried THEN 2 * n ELSE n) |->
                    IF i > n
                      THEN CHOOSE x \in TestResults :
                             x.status = "passed" /\ x.retry = 1
                      ELSE FailedWith(<<"n", "o">>, <<>>)]] :
      n \in 0..MaxFailed, retried \in BOOLEAN }

\* The runs reported, each with the options and the environment it needs:
\* runs of failures with long errors, runs with the ciUrl option and the CI
\* variables set or not, runs with attachments and includeScreenshots on or
\* off, long runs with maxFailuresToShow around the formatters' limit.
ReportInit ==
  /\ ReporterInit
  /\ ~options.onlyOnFailure
  /\ options.slackWebhookUrl
  /\ options.teamsWebhookUrl
  /\ options.projectName = Undefined
  /\ options.environment = Undefined
  /\ env.SLACK_WEBHOOK_URL = Undefined
  /\ env.ONLY_ON_FAILURE = Undefined
  /\ \E run \in EntryRuns \cup CiRuns \cup ShotRuns \cup SliceRuns :
       /\ \/ /\ run \in EntryRuns
             /\ PlainRun
             /\ options.maxFailuresToShow = 0
          \/ /\ run \in CiRuns
             /\ options.includeScreenshots
             /\ options.maxFailuresToShow = 0
          \/ /\ run \in ShotRuns
             /\ options.ciUrl = Undefined
             /\ env = NoEnv
             /\ options.maxFailuresToShow = 0
          \/ /\ run \in SliceRuns
             /\ options.includeScreenshots
             /\ options.ciUrl = Undefined
             /\ env = NoEnv
       /\ fmt = [applied |-> "summary",
                 summary |-> Reported(run, options, env),
                 message |-> Undefined]

SpecReport == ReportInit /\ [][NextFormat]_vars

\* The index of an entry that shows none.
NoIndex == 0

\* The failure entries of a full message as they are shown, in their order.
\* A Slack entry starts with a bullet and shows no index.
Entries(m) ==
  IF m.channel = "teams"
    THEN IF PartsOfKind(m, "failedTests") = {} THEN <<>>
         ELSE LET facts ==
                    m.sections[CHOOSE i \in PartsOfKind(m, "failedTests") : TRUE]
                      .facts
              IN [i \in DOMAIN facts |->
                    [index |-> facts[i].name.index,
                     title |-> facts[i].name.title,
                     fileName |-> facts[i].value.fileName,
                     errorMsg |-> facts[i].value.errorMsg,
                     screenshot |-> FALSE]]
    ELSE LET at == PartsOfKind(m, "failure") IN
         [i \in 1..Cardinality(at) |->
            LET b == m.blocks[CHOOSE k \in at :
                                Cardinality({j \in at : j < k}) = i - 1]
            IN [index |-> NoIndex, title |-> b.title,
                fileName |-> b.fileName, errorMsg |-> b.errorMsg,
                screenshot |-> b.screenshot]]

\* The character budget of the error text of a channel's failure entry.
Budget(m) ==
  IF m.channel = "teams" THEN TeamsMaxErrorLength ELSE SlackMaxErrorLength

\* A text cut to a budget: itself when within it, otherwise its first
\* `budget` characters followed by '...'.
CutTo(text, budget) ==
  IF Len(text) <= budget THEN text
  ELSE SubSeq(text, 1, budget) \o <<".", ".", ".">>

\* A text with its newlines turned to spaces.
Collapsed(text) ==
  [k \in DOMAIN text |-> IF text[k] = "\n" THEN " " ELSE text[k]]

\* A text without the spaces at its two ends.
Stripped(text) ==
  LET inked == {k \in DOMAIN text : text[k] # " "} IN
  IF inked = {} THEN <<>>
  ELSE SubSeq(text, CHOOSE k \in inked : \A j \in inked : k <= j,
                    CHOOSE k \in inked : \A j \in inked : k >= j)

\* C21 as stated: every failure entry of a full message of either channel
\* shows its 1-based index, the test title, the basename of the file and the
\* error text with newlines turned to spaces, whole when that text is within
\* the channel's budget and otherwise its first `budget` characters and '...'.
C21_EntryIndexedAndCut ==
  FormattedFull =>
    LET m == fmt.message IN
    \A i \in DOMAIN Entries(m) :
      LET entry == Entries(m)[i]
          failure == fmt.summary.failures[i]
      IN /\ entry.index = i
         /\ entry.title = failure.title
         /\ entry.fileName = <<failure.file[Len(failure.file)]>>
         /\ entry.errorMsg = CutTo(Collapsed(failure.error), Budget(m))

\* C21 as amended: a Teams entry shows its 1-based index and a Slack entry
\* none; both show the test title, the basename of the file and the error
\* text with newlines turned to spaces and the white space at its ends
\* removed, whole when that text is within the budget and otherwise its first
\* `budget` characters and '...'.
C21_EntryTrimmedAndCut ==
  FormattedFull =>
    LET m == fmt.message IN
    \A i \in DOMAIN Entries(m) :
      LET entry == Entries(m)[i]
          failure == fmt.summary.failures[i]
      IN /\ entry.index = IF m.channel = "teams" THEN i ELSE NoIndex
         /\ entry.title = failure.title
         /\ entry.fileName = <<failure.file[Len(failure.file)]>>
         /\ entry.errorMsg
              = CutTo(Stripped(Collapsed(failure.error)), Budget(m))

\* A full Teams message whose second entry shows an error cut to the budget,
\* and whose first entry shows one that fits once its last newline is gone.
C21_Witness ==
  /\ fmt.applied = "teamsFull"
  /\ Len(Entries(fmt.message)) = 2
  /\ Entries(fmt.message)[2].index = 2
  /\ Len(fmt.summary.failures[2].error) = TeamsMaxErrorLength + 1
  /\ Len(Entries(fmt.message)[2].errorMsg) = TeamsMaxErrorLength + 3
  /\ fmt.summary.failures[1].error = Chars(TeamsMaxErrorLength) \o <<"\n">>
  /\ Len(Entries(fmt.message)[1].errorMsg) = TeamsMaxErrorLength



\* The targets of the 'View Full Report' elements of a message.
ReportTargets(m) ==
  IF m.channel = "teams"
    THEN {m.potentialAction[i].uri : i \in DOMAIN m.potentialAction}
    ELSE {m.blocks[i].url : i \in PartsOfKind(m, "link")}

\* The texts of the 'View Full Report' elements of a message.
ReportNames(m) ==
  IF m.channel = "teams"
    THEN {m.potentialAction[i].name : i \in DOMAIN m.potentialAction}
    ELSE {m.blocks[i].text : i \in PartsOfKind(m, "link")}

\* C22: the full message of each channel has exactly one 'View Full Report'
\* element when the summary has a CI URL and none when it has not, whatever
\* the failed count and the number of failures listed.
C22_OneLinkIffCiUrl ==
  FormattedFull =>
    /\ ReportLinks(fmt.message)
         = IF fmt.summary.ciUrl # Undefined THEN 1 ELSE 0
    /\ ReportTargets(fmt.message) \subseteq {fmt.summary.ciUrl}
    /\ ReportNames(fmt.message) \subseteq {"View Full Report"}

\* A full Teams message with its one report action for a summary with a CI URL
\* and no failed test.
C22_Witness ==
  /\ fmt.applied = "teamsFull"
  /\ fmt.summary.ciUrl # Undefined
  /\ fmt.summary.failed = 0
  /\ fmt.summary.failures = <<>>
  /\ ReportLinks(fmt.message) = 1
  /\ fmt.message.potentialAction[1].name = "View Full Report"


\* The CI variables of process.env.
CiVariables ==
  {env.CI_URL, env.GITHUB_SERVER_URL, env.GITHUB_REPOSITORY, env.GITHUB_RUN_ID}

\* C23: when the ciUrl option is configured, the link of the full message
\* points to exactly that URL; when neither the option nor any CI environment
\* variable is set, the summary has no CI URL.
C23_LinkIsConfiguredUrl ==
  FormattedFull =>
    /\ options.ciUrl # Undefined =>
         ReportTargets(fmt.message) = {options.ciUrl}
    /\ (options.ciUrl = Undefined /\ CiVariables = {Undefined}) =>
         /\ fmt.summary.ciUrl = Undefined
         /\ ReportLinks(fmt.message) = 0

\* C25: when includeScreenshots is false, no failure entry of any message is
\* annotated with screenshot availability, whatever the failed outcomes have
\* attached.
C25_NoAnnotationWhenOff ==
  (Formatted /\ ~options.includeScreenshots) =>
    \A i \in DOMAIN Entries(fmt.message) : ~Entries(fmt.message)[i].screenshot

\* C28: a full message has min(5, number of failures of the summary) failure
\* entries for every maxFailuresToShow; with maxFailuresToShow > 5 the
\* failures of the summary beyond the fifth are counted in the 'N more
\* failures' line, and with maxFailuresToShow <= 5 there is no such line.
C28_FiveEntriesThenMore ==
  FormattedFull =>
    LET m == fmt.message
        listed == Len(fmt.summary.failures)
    IN /\ Len(Entries(m)) = Min(5, listed)
       /\ (options.maxFailuresToShow > 5 /\ listed > 5) =>
            OmittedStated(m) = {listed - 5}
       /\ options.maxFailuresToShow <= 5 => PartsOfKind(m, "more") = {}


----------------------------------------------------------------------------
\* formatDuration of both channels applied to durations of every shape.

\* Durations in milliseconds: every combination of a few hours, minutes,
\* seconds and milliseconds.
DurationInputs ==
  { h * 3600000 + m * 60000 + sec * 1000 + ms :
      h \in 0..MaxHours, m \in {0, 1, 2, 59}, sec \in {0, 1, 5, 12, 45, 59},
      ms \in {0, 1, 500, 999} }

DurationInit ==
  /\ ReporterInit
  /\ PlainRun
  /\ ~options.onlyOnFailure
  /\ options.slackWebhookUrl
  /\ options.teamsWebhookUrl
  /\ options.maxFailuresToShow = 0
  /\ \E d \in DurationInputs :
       fmt = [applied |-> "duration", duration |-> d, text |-> Undefined]

\* A formatDuration is applied to the duration and its text kept.
FormatDuration(applied, text) ==
  /\ fmt.applied = "duration"
  /\ fmt' = [fmt EXCEPT !.applied = applied, !.text = text]
  /\ UNCHANGED <<options, testResults, failures, pc, summary, call, chan,
                 clock, onEndResult, recorded, startTime, ends, env, results>>

FormatDurationSlack ==
  FormatDuration("slackDuration", SlackUtils_formatDuration(fmt.duration))

FormatDurationTeams ==
  FormatDuration("teamsDuration", TeamsUtils_formatDuration(fmt.duration))

NextDuration ==
  \/ FormatDurationSlack
  \/ FormatDurationTeams

SpecDuration == DurationInit /\ [][NextDuration]_vars

\* A duration as hours, minutes and seconds with the leading zero units
\* dropped and the inner ones kept, or as milliseconds under one second.
HoursMinutesSeconds(d) ==
  LET H == d \div 3600000
      M == (d \div 60000) % 60
      S == (d \div 1000) % 60
  IN IF d < 1000 THEN ToString(d) \o "ms"
     ELSE IF H > 0
       THEN ToString(H) \o "h " \o ToString(M) \o "m " \o ToString(S) \o "s"
       ELSE IF M > 0 THEN ToString(M) \o "m " \o ToString(S) \o "s"
            ELSE ToString(S) \o "s"

\* C24: both channels render a duration d as '<d>ms' when d < 1000 and
\* otherwise as 'Ss', 'Mm Ss' or 'Hh Mm Ss' with H = d / 3600000, M = d / 60000
\* mod 60, S = d / 1000 mod 60, leading zero units dropped and inner ones
\* kept: 500 is '500ms', 45000 '45s', 125000 '2m 5s', 3661000 '1h 1m 1s',
\* 3612000 '1h 0m 12s'.
C24_DurationRendered ==
  fmt.applied \in {"slackDuration", "teamsDuration"} =>
    /\ fmt.text = HoursMinutesSeconds(fmt.duration)
    /\ fmt.duration = 500 => fmt.text = "500ms"
    /\ fmt.duration = 45000 => fmt.text = "45s"
    /\ fmt.duration = 125000 => fmt.text = "2m 5s"
    /\ fmt.duration = 3661000 => fmt.text = "1h 1m 1s"
    /\ fmt.duration = 3612000 => fmt.text = "1h 0m 12s"

\* The Slack formatDuration has rendered one hour, no minute and twelve
\* seconds.
C24_Witness ==
  /\ fmt.applied = "slackDuration"
  /\ fmt.duration = 3612000
  /\ fmt.text = "1h 0m 12s"


----------------------------------------------------------------------------
\* The reporter is done with the channel.
Served(c) == chan[c].status \in {"skipped", "sent", "fallback", "failed"}

\* The backoff a failing Slack webhook can cost in all: 2 s and 4 s in the
\* full delivery, and again in the fallback.
SlackBackoffs == {0, 2000, 6000, 8000, 12000}

\* C26: the channels are served in sequence, Slack first: a request goes to
\* the Teams webhook only when the Slack delivery, fallback and backoff waits
\* included, is over, so the first Teams request is late by all the backoff
\* Slack has waited, 12 seconds at most; no Slack request waits for Teams.
C26_SlackThenTeams ==
  /\ (chan["teams"].fullCalls > 0 \/ chan["teams"].posts > 0
        \/ Served("teams")) => Served("slack")
  /\ chan["teams"].firstPostAt # -1 =>
       /\ chan["teams"].firstPostAt = chan["slack"].waited
       /\ chan["teams"].firstPostAt = chan["slack"].finishedAt
       /\ chan["teams"].firstPostAt \in SlackBackoffs
       /\ chan["teams"].firstPostAt <= 12000
  /\ chan["slack"].firstPostAt \in {-1, 0}
  /\ pc \in {"slackFull", "slackSimple"} =>
       /\ chan["teams"].posts = 0
       /\ chan["teams"].waited = 0
       /\ clock = chan["slack"].waited

\* The first Teams request is sent 12 seconds late, after a Slack delivery
\* that failed six times.
C26_Witness ==
  /\ chan["slack"].status = "failed"
  /\ chan["slack"].posts = 6
  /\ chan["teams"].firstPostAt = 12000
  /\ chan["teams"].posts > 0

\* C27: for one onEnd a channel gets at most 6 POSTs, 3 of the full message
\* then 3 of the fallback; the first fallback POST comes only after exactly 3
\* failed POSTs of the full message; no POST follows a 2xx response on the
\* channel.
C27_SixPostsAtMost ==
  \A c \in Channels :
    LET fullPosts == chan[c].posts - chan[c].simplePosts IN
    /\ chan[c].posts <= 6
    /\ fullPosts <= 3
    /\ chan[c].simplePosts <= 3
    /\ chan[c].simpleCalls > 0 =>
         /\ fullPosts = 3
         /\ chan[c].fullResult = "raised"
         /\ chan[c].oks = IF chan[c].lastResp = "ok" /\ chan[c].simplePosts > 0
                            THEN 1 ELSE 0
    /\ chan[c].oks <= 1
    /\ chan[c].oks = 1 => chan[c].lastResp = "ok"

\* A channel that got six POSTs, the sixth answered with a 2xx.
C27_Witness ==
  /\ chan["teams"].posts = 6
  /\ chan["teams"].simplePosts = 3
  /\ chan["teams"].oks = 1
  /\ chan["teams"].status = "fallback"


----------------------------------------------------------------------------
\* The reporter run to its end: every request is answered and every
\* continuation of the reporter runs.  One test of the run stands for all:
\* the deliveries look at the summary's failed count only.

LiveTest == CHOOSE test \in TestCases : test.parent = "login"

NextLive ==
  \/ onBegin
  \/ \E result \in TestResults : onTestEnd(LiveTest, result)
  \/ onEnd
  \/ SlackReporter_sendToSlack
  \/ SlackPost
  \/ SlackReporter_sendToSlack_catch
  \/ SlackReporter_sendToSlack_return
  \/ SlackReporter_sendToTeams
  \/ TeamsPost
  \/ SlackReporter_sendToTeams_catch
  \/ SlackReporter_sendToTeams_return

\* Every POST gets its response or its transport error (fetch resolves or
\* rejects), and the event loop runs every continuation that is ready.
Fairness ==
  /\ WF_vars(SlackPost)
  /\ WF_vars(TeamsPost)
  /\ WF_vars(SlackReporter_sendToSlack)
  /\ WF_vars(SlackReporter_sendToSlack_catch)
  /\ WF_vars(SlackReporter_sendToSlack_return)
  /\ WF_vars(SlackReporter_sendToTeams)
  /\ WF_vars(SlackReporter_sendToTeams_catch)
  /\ WF_vars(SlackReporter_sendToTeams_return)

SpecLive == Init /\ [][NextLive]_vars /\ Fairness

\* C29: whenever onEnd has been called it returns, after at most twelve
\* requests and 24 seconds of backoff, whatever the configuration and
\* whatever the webhooks answer.
C29_onEndTerminates ==
  /\ (onEndResult = "pending") ~> (onEndResult = "resolved" /\ pc = "done")
  /\ [](chan["slack"].posts + chan["teams"].posts <= 12 /\ clock <= 24000)

\* onEnd has returned after both webhooks failed every request.
C29_Witness ==
  /\ pc = "done"
  /\ onEndResult = "resolved"
  /\ chan["slack"].status = "failed"
  /\ chan["teams"].status = "failed"
  /\ chan["slack"].posts + chan["teams"].posts = 12
  /\ clock = 24000


----------------------------------------------------------------------------
\* The legacy JavaScript reporter: it counts into this.results as the tests
\* end, and onEnd sends one notification if shouldSendNotification allows it.
\* It takes its configuration from process.env, not from its options.

\* this.onlyOnFailure = process.env.ONLY_ON_FAILURE === 'true'
Legacy_onlyOnFailure == env.ONLY_ON_FAILURE = "true"

\* The legacy reporter's onBegin: this.startTime = Date.now()
Legacy_onBegin ==
  /\ pc = "idle"
  /\ pc' = "collecting"
  /\ \E now \in BeginDates : startTime' = now
  /\ UNCHANGED <<options, testResults, failures, summary, call, chan, clock,
                 onEndResult, recorded, ends, fmt, env, results>>

\* The failure record the legacy onTestEnd pushes.
Legacy_failure(test, result) ==
  [title |-> test.title, error |-> ErrorText(result), file |-> test.file]

\* The legacy reporter's onTestEnd: the switch on result.status, with cases
\* 'passed', 'failed' and 'skipped' only, and then this.results.total++.
Legacy_onTestEnd(test, result) ==
  /\ pc = "collecting"
  /\ results.total < MaxLegacyTests
  /\ results' =
       [results EXCEPT
          !.passed = @ + (IF result.status = "passed" THEN 1 ELSE 0),
          !.failed = @ + (IF result.status = "failed" THEN 1 ELSE 0),
          !.failures = IF result.status = "failed"
                         THEN Append(@, Legacy_failure(test, result))
                         ELSE @,
          !.skipped = @ + (IF result.status = "skipped" THEN 1 ELSE 0),
          !.total = @ + 1]
  /\ recorded' = Record(result)
  /\ UNCHANGED <<options, testResults, failures, pc, summary, call, chan,
                 clock, onEndResult, startTime, ends, fmt, env>>

\* shouldSendNotification of the legacy reporter
Legacy_shouldSendNotification ==
  IF ~Truthy(env.SLACK_WEBHOOK_URL) THEN FALSE
  ELSE IF Legacy_onlyOnFailure /\ results.failed = 0 THEN FALSE
  ELSE TRUE

\* The legacy reporter's onEnd: the duration, then the notification under
\* shouldSendNotification; an error of the request is caught and logged.
Legacy_onEnd ==
  /\ pc = "collecting"
  /\ pc' = "done"
  /\ \E now \in EndDates :
       results' = [results EXCEPT !.duration = now - startTime]
  /\ IF Legacy_shouldSendNotification
       THEN \E resp \in Responses :
              chan' = [chan EXCEPT !["slack"] =
                         [@ EXCEPT !.posts = 1, !.lastResp = resp,
                                   !.oks = IF resp = "ok" THEN 1 ELSE 0,
                                   !.status = IF resp = "ok" THEN "sent"
                                              ELSE "failed"]]
       ELSE chan' = [chan EXCEPT !["slack"] = [@ EXCEPT !.status = "skipped"]]
  /\ onEndResult' = "resolved"
  /\ ends' = ends + 1
  /\ UNCHANGED <<options, testResults, failures, summary, call, clock,
                 recorded, startTime, fmt, env>>

NextLegacy ==
  \/ Legacy_onBegin
  \/ \E test \in TestCases, result \in TestResults :
       Legacy_onTestEnd(test, result)
  \/ Legacy_onEnd

\* The legacy reporter after its constructor, with SLACK_WEBHOOK_URL and
\* ONLY_ON_FAILURE set or not.
LegacyInit ==
  /\ ReporterInit
  /\ options.maxFailuresToShow = 0
  /\ options.includeScreenshots
  /\ options.projectName = Undefined
  /\ options.environment = Undefined
  /\ options.ciUrl = Undefined
  /\ ~options.onlyOnFailure
  /\ ~options.slackWebhookUrl
  /\ ~options.teamsWebhookUrl
  /\ CiVariables = {Undefined}
  /\ fmt = NoFmt

SpecLegacy == LegacyInit /\ [][NextLegacy]_vars

\* C30: after every sequence of onTestEnd calls of the legacy reporter, with
\* statuses passed, failed, timedOut, skipped and interrupted,
\* results.total = results.passed + results.failed + results.skipped and
\* results.failures has results.failed entries.
C30_LegacyTotalIsSum ==
  /\ results.total = results.passed + results.failed + results.skipped
  /\ Len(results.failures) = results.failed

====
